---- MODULE Spec2Model ----
(***************************************************************************)
(* A model of atm.py: the db dictionary held in memory, the db.json file   *)
(* it is saved to, the core operations (create_user, delete_user,          *)
(* change_pin, deposit, withdraw, set_atm_cash, change_role,               *)
(* first_time_login) and the controller (main, admin_menu, user_menu,      *)
(* ensure_admin) that calls them.                                          *)
(*                                                                         *)
(* Amounts are Python floats.  The amounts explored are whole numbers far  *)
(* below 2^53, on which binary64 addition and subtraction are exact, plus  *)
(* the two special values float() accepts from the prompt: nan and inf.    *)
(* The "time" field of a transaction entry is left out: nothing in the     *)
(* program reads it back.                                                  *)
(***************************************************************************)
EXTENDS Integers, Sequences, FiniteSets, TLC

VARIABLES
    db,     \* the dictionary main() holds while the process runs
    file,   \* the content of db.json
    pc,     \* where the process is: "down" or the prompt it waits at
    login,  \* the username typed at the login prompt of this session
    last,   \* the call the controller made last and how it ended
    unit,   \* set when the process stops inside a call: the file before
            \* the call and the file a completed call would have left
    ops     \* how many calls have written to db.json since Init

vars == <<db, file, pc, login, last, unit, ops>>

-----------------------------------------------------------------------------
(* Bounds of the exploration *)

\* the number of writing calls explored from an initial state
MaxOps == 2

\* the vault of a fresh database
InitCash == 10000

-----------------------------------------------------------------------------
(* Python floats *)

F(n) == [k |-> "fin", v |-> n]
NaN == [k |-> "nan", v |-> 0]
PosInf == [k |-> "inf", v |-> 1]

\* x < y on floats: False whenever an operand is nan
FLt(x, y) ==
    /\ x.k # "nan"
    /\ y.k # "nan"
    /\ CASE x.k = "fin" /\ y.k = "fin" -> x.v < y.v
         [] x.k = "inf" /\ y.k = "inf" -> x.v < y.v
         [] x.k = "inf" /\ y.k = "fin" -> x.v < 0
         [] OTHER -> y.v > 0

\* x <= y on floats: False whenever an operand is nan
FLe(x, y) ==
    /\ x.k # "nan"
    /\ y.k # "nan"
    /\ CASE x.k = "fin" /\ y.k = "fin" -> x.v <= y.v
         [] x.k = "inf" /\ y.k = "inf" -> x.v <= y.v
         [] x.k = "inf" /\ y.k = "fin" -> x.v < 0
         [] OTHER -> y.v > 0

FNeg(x) == IF x.k = "nan" THEN NaN ELSE [x EXCEPT !.v = 0 - @]

\* x + y on floats: nan is absorbing, inf + -inf is nan
FAdd(x, y) ==
    CASE x.k = "nan" \/ y.k = "nan" -> NaN
      [] x.k = "inf" /\ y.k = "inf" -> IF x.v = y.v THEN x ELSE NaN
      [] x.k = "inf" -> x
      [] y.k = "inf" -> y
      [] OTHER -> F(x.v + y.v)

FSub(x, y) == FAdd(x, FNeg(y))

-----------------------------------------------------------------------------
(* Inputs typed at the prompts *)

Usernames == {"admin", "alice"}
PINs == {"1234", "0000"}
Salts == {"a1", "b2"}
Roles == {"admin", "user", "guest"}
\* what float(input(...)) can return
Amounts == {F(-1), F(0), F(1), NaN, PosInf}

None == "None"
NoUser == "-"

-----------------------------------------------------------------------------
(* The database and the file *)

NewDb == [atm_cash |-> F(InitCash), users |-> <<>>, transactions |-> <<>>]

Absent == [st |-> "absent", db |-> NewDb]
Torn == [st |-> "torn", db |-> NewDb]
Stored(d) == [st |-> "ok", db |-> d]

NoUnit == [pre |-> Absent, post |-> Absent, open |-> FALSE]

\* the core operation the controller called in its last step, with "ok" or
\* the error it raised, and the PIN it stored if it stored one (for
\* authenticate: the PIN typed at its prompt); NoCall when the step called
\* none
Did(call, res, pin) == [call |-> call, res |-> res, pin |-> pin]
NoCall == Did("none", "ok", None)

\* save_db: json.dump of the dictionary; r.saves lists what was written
save_db(r) == [r EXCEPT !.saves = Append(@, r.db)]

Begin(d) == [db |-> d, saves |-> <<>>, res |-> "ok"]
Raise(d, msg) == [db |-> d, saves |-> <<>>, res |-> msg]

\* hashlib.sha256((salt + pin).encode()).hexdigest(), kept symbolic
sha256(text) == "sha256(" \o text \o ")"

hash_pin(pin, salt) == <<salt, sha256(salt \o pin)>>

verify_pin(pin, salt, pin_hash) == sha256(salt \o pin) = pin_hash

log_transaction(r, username, action_type, amount, note) ==
    save_db([r EXCEPT !.db.transactions = Append(@,
        [user |-> username, type |-> action_type, amount |-> amount, note |-> note])])

-----------------------------------------------------------------------------
(* The core operations.  Each takes the dictionary and returns the         *)
(* dictionary it leaves, the snapshots it saved, and "ok" or the message   *)
(* of the ValueError it raised.  salt is the token secrets.token_hex drew. *)

Without(users, username) == [u \in DOMAIN users \ {username} |-> users[u]]

create_user(d, username, pin, role, balance, salt) ==
    IF username \in DOMAIN d.users THEN Raise(d, "user exists")
    ELSE
        LET cred == IF pin # None THEN hash_pin(pin, salt) ELSE <<None, None>>
            account == [role |-> role, pin_salt |-> cred[1],
                        pin_hash |-> cred[2], balance |-> balance]
            r == Begin([d EXCEPT !.users = (username :> account) @@ @])
        IN  log_transaction(save_db(r), username, "create_user", balance,
                            "role=" \o role)

\* a faulty delete_user the properties must reject: it also drops the
\* deleted user's records from the audit log
delete_user_purging(d, username) ==
    IF username \notin DOMAIN d.users THEN Raise(d, "no user")
    ELSE
        LET kept == SelectSeq(d.transactions, LAMBDA e : e.user # username)
            r == Begin([d EXCEPT !.users = Without(@, username),
                                 !.transactions = kept])
        IN  log_transaction(save_db(r), username, "delete_user", F(0), "deleted")

delete_user(d, username) ==
    IF username \notin DOMAIN d.users THEN Raise(d, "no user")
    ELSE
        LET r == Begin([d EXCEPT !.users = Without(@, username)])
        IN  log_transaction(save_db(r), username, "delete_user", F(0), "deleted")

\* a faulty change_pin the properties must reject: it stores the new salt
\* and leaves the old hash
change_pin_stale_hash(d, username, old_pin, new_pin, salt) ==
    IF username \notin DOMAIN d.users THEN Raise(d, "no user")
    ELSE
        LET user == d.users[username] IN
        IF user.pin_hash # None /\ ~verify_pin(old_pin, user.pin_salt, user.pin_hash)
        THEN Raise(d, "wrong pin")
        ELSE
            LET cred == hash_pin(new_pin, salt)
                r == Begin([d EXCEPT !.users[username].pin_salt = cred[1]])
            IN  log_transaction(save_db(r), username, "change_pin", F(0), "")

change_pin(d, username, old_pin, new_pin, salt) ==
    IF username \notin DOMAIN d.users THEN Raise(d, "no user")
    ELSE
        LET user == d.users[username] IN
        IF user.pin_hash # None /\ ~verify_pin(old_pin, user.pin_salt, user.pin_hash)
        THEN Raise(d, "wrong pin")
        ELSE
            LET cred == hash_pin(new_pin, salt)
                r == Begin([d EXCEPT !.users[username].pin_salt = cred[1],
                                     !.users[username].pin_hash = cred[2]])
            IN  log_transaction(save_db(r), username, "change_pin", F(0), "")

check_balance(d, username) ==
    IF username \notin DOMAIN d.users THEN Raise(d, "no user") ELSE Begin(d)

\* a faulty deposit the properties must reject: it adds to the vault after
\* the last save_db
deposit_vault_unsaved(d, username, amount) ==
    IF FLe(amount, F(0)) THEN Raise(d, "bad amount")
    ELSE IF username \notin DOMAIN d.users THEN Raise(d, "no user")
    ELSE
        LET r == Begin([d EXCEPT !.users[username].balance = FAdd(@, amount)])
            logged == log_transaction(save_db(r), username, "deposit", amount, "")
        IN  [logged EXCEPT !.db.atm_cash = FAdd(@, amount)]

\* a faulty deposit the properties must reject: it credits every account
deposit_credits_all(d, username, amount) ==
    IF FLe(amount, F(0)) THEN Raise(d, "bad amount")
    ELSE IF username \notin DOMAIN d.users THEN Raise(d, "no user")
    ELSE
        LET credited == [u \in DOMAIN d.users |->
                            [d.users[u] EXCEPT !.balance = FAdd(@, amount)]]
            r == Begin([d EXCEPT !.users = credited,
                                 !.atm_cash = FAdd(@, amount)])
        IN  log_transaction(save_db(r), username, "deposit", amount, "")

deposit(d, username, amount) ==
    IF FLe(amount, F(0)) THEN Raise(d, "bad amount")
    ELSE IF username \notin DOMAIN d.users THEN Raise(d, "no user")
    ELSE
        LET r == Begin([d EXCEPT !.users[username].balance = FAdd(@, amount),
                                 !.atm_cash = FAdd(@, amount)])
        IN  log_transaction(save_db(r), username, "deposit", amount, "")

\* a faulty withdraw the properties must reject: it debits the account
\* before it finds the vault short
withdraw_debit_first(d, username, amount) ==
    IF FLe(amount, F(0)) THEN Raise(d, "bad amount")
    ELSE IF username \notin DOMAIN d.users THEN Raise(d, "no user")
    ELSE IF FLt(d.users[username].balance, amount) THEN Raise(d, "insufficient funds")
    ELSE
        LET debited == [d EXCEPT !.users[username].balance = FSub(@, amount)] IN
        IF FLt(d.atm_cash, amount) THEN Raise(debited, "ATM out of cash")
        ELSE
            LET r == Begin([debited EXCEPT !.atm_cash = FSub(@, amount)])
            IN  log_transaction(save_db(r), username, "withdraw", amount, "")

\* a faulty withdraw the properties must reject: it looks at the vault
\* before the balance
withdraw_vault_first(d, username, amount) ==
    IF FLe(amount, F(0)) THEN Raise(d, "bad amount")
    ELSE IF username \notin DOMAIN d.users THEN Raise(d, "no user")
    ELSE IF FLt(d.atm_cash, amount) THEN Raise(d, "ATM out of cash")
    ELSE IF FLt(d.users[username].balance, amount) THEN Raise(d, "insufficient funds")
    ELSE
        LET r == Begin([d EXCEPT !.users[username].balance = FSub(@, amount),
                                 !.atm_cash = FSub(@, amount)])
        IN  log_transaction(save_db(r), username, "withdraw", amount, "")

withdraw(d, username, amount) ==
    IF FLe(amount, F(0)) THEN Raise(d, "bad amount")
    ELSE IF username \notin DOMAIN d.users THEN Raise(d, "no user")
    ELSE IF FLt(d.users[username].balance, amount) THEN Raise(d, "insufficient funds")
    ELSE IF FLt(d.atm_cash, amount) THEN Raise(d, "ATM out of cash")
    ELSE
        LET r == Begin([d EXCEPT !.users[username].balance = FSub(@, amount),
                                 !.atm_cash = FSub(@, amount)])
        IN  log_transaction(save_db(r), username, "withdraw", amount, "")

\* the limit view_transactions takes when the caller gives none
DefaultLimit == 20

\* db["transactions"][-limit:], as Python slices: from the limit-th record
\* counted from the end when limit > 0 (from the first when the list is
\* shorter), from index -limit counted from the start otherwise, and -0 is 0
view_transactions(d, limit) ==
    LET t == d.transactions
        start == IF limit > 0
                 THEN (IF Len(t) > limit THEN Len(t) - limit ELSE 0)
                 ELSE (IF -limit < Len(t) THEN -limit ELSE Len(t))
    IN  SubSeq(t, start + 1, Len(t))

set_atm_cash(d, amount) ==
    LET r == Begin([d EXCEPT !.atm_cash = amount])
    IN  log_transaction(save_db(r), "admin", "set_atm_cash", amount, "")

change_role(d, username, new_role) ==
    IF username \notin DOMAIN d.users THEN Raise(d, "no such user")
    ELSE
        LET old_role == d.users[username].role
            r == Begin([d EXCEPT !.users[username].role = new_role])
        IN  log_transaction(save_db(r), "admin", "change_role", F(0),
                            username \o ": " \o old_role \o " -> " \o new_role)

\* a faulty first_time_login the properties must reject: it saves the PIN
\* and writes no audit record
first_time_login_unlogged(d, username, pin, salt) ==
    LET cred == hash_pin(pin, salt)
        r == Begin([d EXCEPT !.users[username].pin_salt = cred[1],
                             !.users[username].pin_hash = cred[2]])
    IN  save_db(r)

\* the body of first_time_login once the two PINs typed are equal
first_time_login(d, username, pin, salt) ==
    LET cred == hash_pin(pin, salt)
        r == Begin([d EXCEPT !.users[username].pin_salt = cred[1],
                             !.users[username].pin_hash = cred[2]])
    IN  log_transaction(save_db(r), username, "set_pin", F(0), "first-time setup")

HasAdmin(d) == \E u \in DOMAIN d.users : d.users[u].role = "admin"

-----------------------------------------------------------------------------
(* The controller *)

\* the dictionary of a run that created the admin "admin" and had the admin
\* create the user "alice" with balance 1
InvitedDb ==
    LET d == create_user(NewDb, "admin", "1234", "admin", F(0), "a1").db
    IN  create_user(d, "alice", None, "user", F(1), None).db

Init ==
    /\ db = NewDb
    /\ file \in {Absent, Stored(InvitedDb)}
    /\ pc = "down"
    /\ login = NoUser
    /\ last = NoCall
    /\ unit = NoUnit
    /\ ops = 0

\* The process ends: main()'s dictionary is gone
Down ==
    /\ pc' = "down"
    /\ db' = NewDb
    /\ login' = NoUser

\* One call of a core operation from a prompt.  It either runs to its end
\* (returning, or raising into the caller's except clause), or the process
\* stops inside it: before save number i begins (the file is what the
\* previous save left) or while save number i is writing (open(..., "w")
\* has truncated db.json and the dump is not complete).
Call(call, pin, r, next) ==
    /\ r.saves # <<>> => ops < MaxOps
    /\ \/ /\ db' = r.db
          /\ file' = IF r.saves = <<>> THEN file ELSE Stored(r.saves[Len(r.saves)])
          /\ pc' = next
          /\ last' = Did(call, r.res, IF r.res = "ok" THEN pin ELSE None)
          /\ unit' = NoUnit
          /\ ops' = IF r.saves = <<>> THEN ops ELSE ops + 1
          /\ UNCHANGED login
       \/ \E i \in 1..Len(r.saves), writing \in BOOLEAN :
          /\ Down
          /\ file' = IF writing THEN Torn
                     ELSE IF i = 1 THEN file ELSE Stored(r.saves[i - 1])
          /\ last' = Did(call, "stopped", None)
          /\ unit' = [pre |-> file, post |-> Stored(r.db), open |-> TRUE]
          /\ ops' = ops + 1

\* a prompt that prints a message and calls nothing that writes
Say ==
    /\ last' = NoCall
    /\ UNCHANGED <<db, file, pc, login, unit, ops>>

\* main(): load_db, then the search for an admin that opens ensure_admin
Start ==
    /\ pc = "down"
    /\ login' = NoUser
    /\ unit' = NoUnit
    /\ UNCHANGED ops
    /\ IF file.st = "torn"
       THEN /\ last' = Did("load_db", "JSONDecodeError", None)
            /\ UNCHANGED <<db, file, pc>>
       ELSE /\ db' = IF file.st = "absent" THEN NewDb ELSE file.db
            /\ file' = Stored(db')
            /\ pc' = IF HasAdmin(db') THEN "main" ELSE "create_admin"
            /\ last' = NoCall

\* one round of the loop of ensure_admin; the ValueError of create_user is
\* not caught there and ends the process
CreateAdmin ==
    /\ pc = "create_admin"
    /\ \E username \in Usernames, pin \in PINs, pin2 \in PINs, salt \in Salts :
        LET r == create_user(db, username, pin, "admin", F(0), salt)
        IN  IF pin # pin2 THEN Say
            ELSE IF r.res # "ok"
            THEN /\ Down
                 /\ last' = Did("ensure_admin", r.res, None)
                 /\ UNCHANGED <<file, unit, ops>>
            ELSE Call("create_user", pin, r, "main")

\* main(), choice 1, up to the first prompt of authenticate
Login ==
    /\ pc = "main"
    /\ \E username \in Usernames :
        IF username \notin DOMAIN db.users THEN Say
        ELSE /\ login' = username
             /\ pc' = IF db.users[username].pin_hash # None
                      THEN "pin_prompt" ELSE "setup_pin"
             /\ last' = NoCall
             /\ UNCHANGED <<db, file, unit, ops>>

\* one round of the loop of first_time_login
FirstTimeLogin ==
    /\ pc = "setup_pin"
    /\ \E pin \in PINs, pin2 \in PINs, salt \in Salts :
        IF pin # pin2 THEN Say
        ELSE Call("first_time_login", pin,
                  first_time_login(db, login, pin, salt), "pin_prompt")

\* a faulty PIN prompt the properties must reject: it opens the menu
\* whatever PIN is typed
EnterPin_any_pin ==
    /\ pc = "pin_prompt"
    /\ \E pin \in PINs :
        /\ pc' = IF db.users[login].role = "admin" THEN "admin_menu" ELSE "user_menu"
        /\ last' = Did("authenticate", "ok", pin)
        /\ UNCHANGED <<db, file, login, unit, ops>>

\* the PIN prompt of authenticate and the routing of main() by role
EnterPin ==
    /\ pc = "pin_prompt"
    /\ \E pin \in PINs :
        LET user == db.users[login] IN
        IF verify_pin(pin, user.pin_salt, user.pin_hash)
        THEN /\ pc' = IF user.role = "admin" THEN "admin_menu" ELSE "user_menu"
             /\ last' = Did("authenticate", "ok", pin)
             /\ UNCHANGED <<db, file, login, unit, ops>>
        ELSE /\ pc' = "main"
             /\ login' = NoUser
             /\ last' = Did("authenticate", "wrong pin", pin)
             /\ UNCHANGED <<db, file, unit, ops>>

\* main(), choice 2: sys.exit(0)
Exit ==
    /\ pc = "main"
    /\ Down
    /\ last' = NoCall
    /\ UNCHANGED <<file, unit, ops>>

\* an unknown choice in any of the three menus, or a number float() rejects:
\* a message is printed and the menu shown again (as when two PINs typed
\* differ, or a deletion is not confirmed)
BadInput ==
    /\ pc \in {"main", "admin_menu", "user_menu"}
    /\ Say

(* admin_menu *)

\* choices 1 and 4: what list_users(db) and view_transactions(db), with
\* limit DefaultLimit, return is printed, and nothing changes
AdminShow ==
    /\ pc = "admin_menu"
    /\ Say

AdminCreateUser ==
    /\ pc = "admin_menu"
    /\ \E username \in Usernames, role \in Roles, balance \in Amounts :
        Call("create_user", None,
             create_user(db, username, None, role, balance, None), "admin_menu")

AdminDeleteUser ==
    /\ pc = "admin_menu"
    /\ \E username \in Usernames, confirm \in {"yes", "no"} :
        IF confirm = "yes"
        THEN Call("delete_user", None, delete_user(db, username), "admin_menu")
        ELSE Say

AdminSetAtmCash ==
    /\ pc = "admin_menu"
    /\ \E amount \in Amounts :
        Call("set_atm_cash", None, set_atm_cash(db, amount), "admin_menu")

AdminChangeRole ==
    /\ pc = "admin_menu"
    /\ \E username \in Usernames, new_role \in Roles :
        Call("change_role", None, change_role(db, username, new_role),
             "admin_menu")

(* user_menu *)

UserBalance ==
    /\ pc = "user_menu"
    /\ Call("check_balance", None, check_balance(db, login), "user_menu")

UserWithdraw ==
    /\ pc = "user_menu"
    /\ \E amount \in Amounts :
        Call("withdraw", None, withdraw(db, login, amount), "user_menu")

UserDeposit ==
    /\ pc = "user_menu"
    /\ \E amount \in Amounts :
        Call("deposit", None, deposit(db, login, amount), "user_menu")

UserChangePin ==
    /\ pc = "user_menu"
    /\ \E old_pin \in PINs, new_pin \in PINs, salt \in Salts :
        Call("change_pin", new_pin, change_pin(db, login, old_pin, new_pin, salt),
             "user_menu")

\* choice 7 of admin_menu, choice 5 of user_menu: back to the login prompt
MenuExit ==
    /\ pc \in {"admin_menu", "user_menu"}
    /\ pc' = "main"
    /\ login' = NoUser
    /\ last' = NoCall
    /\ UNCHANGED <<db, file, unit, ops>>

Next ==
    \/ Start
    \/ CreateAdmin
    \/ Login
    \/ FirstTimeLogin
    \/ EnterPin
    \/ Exit
    \/ BadInput
    \/ AdminShow
    \/ AdminCreateUser
    \/ AdminDeleteUser
    \/ AdminSetAtmCash
    \/ AdminChangeRole
    \/ UserBalance
    \/ UserWithdraw
    \/ UserDeposit
    \/ UserChangePin
    \/ MenuExit

Spec == Init /\ [][Next]_vars

TypeOK ==
    /\ pc \in {"down", "create_admin", "main", "setup_pin", "pin_prompt",
               "admin_menu", "user_menu"}
    /\ login \in Usernames \cup {NoUser}
    /\ file.st \in {"absent", "torn", "ok"}
    /\ ops \in 0..MaxOps

-----------------------------------------------------------------------------
(* Properties *)

Running == pc # "down"
NonNeg(x) == FLe(F(0), x)
Positive(x) == FLt(F(0), x)
Log(d) == d.transactions
Newest(d) == Log(d)[Len(Log(d))]
IsPrefix(s, t) == Len(s) <= Len(t) /\ SubSeq(t, 1, Len(s)) = s

\* the calls that write, and all the calls of the core
Writers == {"create_user", "delete_user", "change_pin", "deposit", "withdraw",
            "set_atm_cash", "change_role", "first_time_login"}
CoreCalls == Writers \cup {"check_balance"}

\* the step just taken was a call of c that returned / that raised
Returned(c) == last'.call = c /\ last'.res = "ok"
Raised == last'.call \in CoreCalls /\ last'.res \notin {"ok", "stopped"}

\* C1: a deposit or withdraw that succeeds on an account whose balance is
\* >= 0 leaves that balance >= 0 (so the balance stays >= 0 over every
\* sequence of successful deposits and withdrawals).
C1_BalanceStaysNonNegative ==
    [][(Returned("deposit") \/ Returned("withdraw"))
        /\ NonNeg(db.users[login].balance)
        => NonNeg(db'.users[login].balance)]_vars

\* C2: the vault is >= 0 in every reachable state, in memory and in db.json.
C2_VaultNonNegative ==
    /\ Running => NonNeg(db.atm_cash)
    /\ file.st = "ok" => NonNeg(file.db.atm_cash)

\* C3: when the process stops inside a writing call, db.json holds either
\* the whole state before the call or the whole state after it, audit
\* record included.
C3_CrashLeavesPreOrPost ==
    unit.open => file \in {unit.pre, unit.post}

\* C4: a core operation that raises leaves the dictionary in memory and
\* db.json as they were: balances, vault, credentials, roles, accounts and
\* the audit log.
C4_FailureChangesNothing ==
    [][Raised => db' = db /\ file' = file]_vars

\* C4 witness: a withdraw has just been refused for lack of vault cash.
C4_Witness ==
    /\ pc = "user_menu"
    /\ last = Did("withdraw", "ATM out of cash", None)
    /\ file = Stored(db)

PinSetters == {"create_user", "change_pin", "first_time_login"}

\* the step just taken stored a PIN (for the user its audit record names)
SetsPin == last'.call \in PinSetters /\ last'.res = "ok" /\ last'.pin # None

\* what authenticate decides for PIN p typed for account u
Verifies(d, u, p) ==
    /\ u \in DOMAIN d.users
    /\ d.users[u].pin_hash # None
    /\ verify_pin(p, d.users[u].pin_salt, d.users[u].pin_hash)

\* C5: right after a call that sets a PIN for an account, a PIN verifies
\* against the stored salt and hash iff it is the PIN just set (so the old
\* PIN no longer verifies after change_pin(old, new) with new # old); and no
\* other step changes what verifies for an account that stays.
C5_VerifyMatchesLastPin ==
    [][/\ SetsPin =>
            \A p \in PINs : Verifies(db', Newest(db').user, p) <=> p = last'.pin
       /\ Running /\ pc' # "down" =>
            \A u \in DOMAIN db.users \cap DOMAIN db'.users :
                ~(SetsPin /\ Newest(db').user = u) =>
                    \A p \in PINs : Verifies(db', u, p) <=> Verifies(db, u, p)
      ]_vars

\* C5 witness: the admin of InvitedDb, whose PIN was "1234" and was set
\* once, has just changed it to "0000" from the user menu; the new PIN
\* verifies and the old one does not.
C5_Witness ==
    /\ pc = "user_menu"
    /\ login = "admin"
    /\ IsPrefix(Log(InvitedDb), Log(db))
    /\ Cardinality({i \in 1..Len(Log(db)) :
            Log(db)[i].user = "admin" /\ Log(db)[i].type = "change_pin"}) = 1
    /\ last = Did("change_pin", "ok", "0000")
    /\ Verifies(db, "admin", "0000")
    /\ ~Verifies(db, "admin", "1234")

\* C6: a writing call that returns makes the audit log exactly one record
\* longer; a call that raises leaves its length as it was.
C6_OneRecordPerSuccess ==
    [][/\ (\E c \in Writers : Returned(c)) =>
            Len(Log(db')) = Len(Log(db)) + 1
       /\ Raised => Len(Log(db')) = Len(Log(db))
      ]_vars

\* C6 witness: a first-time PIN setup has just returned and its set_pin
\* record is the newest of the log.
C6_Witness ==
    /\ pc = "pin_prompt"
    /\ last.call = "first_time_login"
    /\ last.res = "ok"
    /\ Newest(db).type = "set_pin"
    /\ Newest(db).user = login

\* C7: the audit log only grows at its end: while the process runs the log
\* before a step is a prefix of the log after it, the same holds of the log
\* in db.json, and a start takes the log over from db.json.
C7_LogAppendOnly ==
    [][/\ Running /\ pc' # "down" => IsPrefix(Log(db), Log(db'))
       /\ file.st = "ok" /\ file'.st = "ok" =>
            IsPrefix(Log(file.db), Log(file'.db))
       /\ pc = "down" /\ pc' # "down" /\ file.st = "ok" =>
            Log(db') = Log(file.db)
      ]_vars

\* C7 witness: an account has just been deleted and an earlier record of
\* that account is still in the log.
C7_Witness ==
    /\ pc = "admin_menu"
    /\ last = Did("delete_user", "ok", None)
    /\ Newest(db).user \notin DOMAIN db.users
    /\ \E i \in 1..(Len(Log(db)) - 1) : Log(db)[i].user = Newest(db).user

\* C8: once ensure_admin has returned, some account has role admin.
C8_AdminAlwaysExists ==
    pc \in {"main", "setup_pin", "pin_prompt", "admin_menu", "user_menu"}
        => HasAdmin(db)

\* C9: for any existing account and any amount > 0, a deposit followed at
\* once by a withdraw of the same amount succeeds and brings the balance
\* and the vault back to what they were.
C9_DepositWithdrawRoundTrip ==
    Running =>
        \A u \in DOMAIN db.users, a \in Amounts :
            Positive(a) =>
                LET r1 == deposit(db, u, a)
                    r2 == withdraw(r1.db, u, a)
                IN  /\ r1.res = "ok"
                    /\ r2.res = "ok"
                    /\ r2.db.users[u].balance = db.users[u].balance
                    /\ r2.db.atm_cash = db.atm_cash

\* C10 as claimed: with the vault at 0, every withdraw of an amount > 0
\* by an existing user fails with "ATM out of cash", whatever the balance.
C10_EmptyVaultAlwaysOutOfCash ==
    Running /\ db.atm_cash = F(0) =>
        \A u \in DOMAIN db.users, a \in Amounts :
            Positive(a) => withdraw(db, u, a).res = "ATM out of cash"

\* C10 as amended: with the vault at 0, every withdraw of an amount > 0 by
\* an existing user fails and changes nothing: with "insufficient funds"
\* when the balance is below the amount, with "ATM out of cash" otherwise.
C10_EmptyVaultWithdrawFails ==
    Running /\ db.atm_cash = F(0) =>
        \A u \in DOMAIN db.users, a \in Amounts :
            Positive(a) =>
                LET r == withdraw(db, u, a)
                IN  /\ r.res = IF FLt(db.users[u].balance, a)
                               THEN "insufficient funds" ELSE "ATM out of cash"
                    /\ r.db = db
                    /\ r.saves = <<>>

\* C10 witness: the vault is 0 and a user whose balance covers the amount
\* has just been refused with "ATM out of cash".
C10_Witness ==
    /\ pc = "user_menu"
    /\ db.atm_cash = F(0)
    /\ Positive(db.users[login].balance)
    /\ last = Did("withdraw", "ATM out of cash", None)

\* the prompts of the two menus, and the directory operations of the admin menu
Menus == {"admin_menu", "user_menu"}
AdminCalls == {"create_user", "delete_user", "set_atm_cash", "change_role"}

\* C11: at the moment set_atm_cash, change_role, create_user or delete_user
\* executes from the admin menu, the account of the logged-in session
\* exists and has role admin, also after the session changed its own role
\* or deleted its own account earlier in the same menu.
C11_AdminOnly ==
    [][pc = "admin_menu" /\ last'.call \in AdminCalls
        => login \in DOMAIN db.users /\ db.users[login].role = "admin"]_vars

\* C12: no operation of a menu is executed by a session whose account has,
\* at that moment, no credential (pin_hash null).
C12_NoCallWithoutCredential ==
    [][(pc \in Menus /\ last'.call \in CoreCalls /\ login \in DOMAIN db.users)
        => db.users[login].pin_hash # None]_vars

\* the messages of the errors the core raises
CoreErrors == {"user exists", "no such user", "wrong pin", "bad amount",
               "insufficient funds", "ATM out of cash", "no user"}

\* C13: no error of the core is fatal: whenever a core call has raised, the
\* controller caught it and the process is still running, also after a
\* restart on a db.json that holds accounts but no admin.
C13_CoreErrorsCaught ==
    last.res \in CoreErrors => Running

\* C14: the role of every account is admin or user, whatever role was given
\* to create_user or change_role.
C14_RolesAdminOrUser ==
    Running => \A u \in DOMAIN db.users : db.users[u].role \in {"admin", "user"}

\* C15: create_user creates no account with a negative initial balance:
\* every account it has just created has a balance >= 0, and no credential
\* when no PIN was given.
C15_NewAccountNonNegative ==
    [][Returned("create_user") =>
        \A u \in DOMAIN db'.users \ DOMAIN db.users :
            /\ NonNeg(db'.users[u].balance)
            /\ (last'.pin = None => db'.users[u].pin_hash = None)]_vars

\* the largest limit the properties give to view_transactions
MaxLimit == 5

\* the last k records of log t, in the order they were appended
LastRecords(t, k) == SubSeq(t, Len(t) - k + 1, Len(t))

\* C16: for every audit log and every n >= 0, view_transactions(db, n) is
\* exactly the last min(n, length) records in the order they were
\* appended: no record for n = 0, the whole log when n exceeds its length.
C16_ViewReturnsTail ==
    Running =>
        \A n \in 0..MaxLimit :
            view_transactions(db, n) =
                LastRecords(Log(db), IF n < Len(Log(db)) THEN n ELSE Len(Log(db)))

\* C17: the audit record that set_atm_cash or change_role appends carries,
\* in its user field, the username of the admin who is logged in, whatever
\* that username is.
C17_AuditNamesActor ==
    [][Returned("set_atm_cash") \/ Returned("change_role")
        => Newest(db').user = login]_vars

\* the ledger and directory operations of the two menus
SessionCalls == {"deposit", "withdraw", "change_pin", "check_balance"}
                    \cup AdminCalls

\* C18: a session executes a ledger or directory operation only after the
\* PIN typed at its login verified against the stored credential of the
\* username logging in: a menu is entered only from the PIN prompt, for the
\* same username, with a PIN that verifies; a PIN that does not verify
\* leads back to the login prompt with nothing changed; and a session calls
\* these operations only from a menu, whose username never changes.
C18_OnlyAfterVerifiedPin ==
    [][/\ (pc' \in Menus /\ pc \notin Menus) =>
            /\ pc = "pin_prompt"
            /\ login' = login
            /\ last'.call = "authenticate"
            /\ Verifies(db, login, last'.pin)
       /\ (last'.call = "authenticate" /\ ~Verifies(db, login, last'.pin)) =>
            /\ pc' = "main"
            /\ last'.res = "wrong pin"
            /\ db' = db
            /\ file' = file
       /\ (last'.call \in SessionCalls /\ login # NoUser) => pc \in Menus
       /\ (pc \in Menus /\ pc' \in Menus) => login' = login]_vars

\* C18 witness: alice deposited in a session of hers, left the menu, and a
\* wrong PIN has just been typed at the next login: the login prompt shows.
C18_Witness ==
    /\ pc = "main"
    /\ last.call = "authenticate"
    /\ last.res = "wrong pin"
    /\ login = NoUser
    /\ Len(Log(db)) > 0
    /\ Newest(db).type = "deposit"
    /\ Newest(db).user = "alice"

\* C19: whenever the process is running, between two calls of the core and
\* so after every call that returned or raised without a crash, db.json
\* holds exactly the dictionary in memory: vault, accounts and audit log.
C19_FileEqualsMemory ==
    Running => file = Stored(db)

\* C19 witness: a deposit has just returned, and db.json holds its result.
C19_Witness ==
    /\ pc = "user_menu"
    /\ last = Did("deposit", "ok", None)
    /\ Newest(db).type = "deposit"
    /\ file = Stored(db)

\* C20: a deposit (withdraw) by u of amount a that succeeds adds a to
\* (takes a from) u's balance and the vault and appends one record to the
\* audit log; every other balance, every role and credential, and the set
\* of accounts stay as they were.
C20_DepositWithdrawFrame ==
    [][Returned("deposit") \/ Returned("withdraw") =>
        LET u == login
            a == Newest(db').amount
            Moved(x) == IF last'.call = "deposit" THEN FAdd(x, a) ELSE FSub(x, a)
        IN  /\ Log(db') = Append(Log(db), Newest(db'))
            /\ Newest(db').user = u
            /\ Newest(db').type = last'.call
            /\ Positive(a) \/ a = NaN
            /\ db'.users[u].balance = Moved(db.users[u].balance)
            /\ db'.atm_cash = Moved(db.atm_cash)
            /\ DOMAIN db'.users = DOMAIN db.users
            /\ \A v \in DOMAIN db.users :
                /\ db'.users[v].role = db.users[v].role
                /\ db'.users[v].pin_salt = db.users[v].pin_salt
                /\ db'.users[v].pin_hash = db.users[v].pin_hash
                /\ v # u => db'.users[v].balance = db.users[v].balance]_vars

\* C20 witness: alice has just deposited 1 while the account admin exists.
C20_Witness ==
    /\ pc = "user_menu"
    /\ login = "alice"
    /\ last = Did("deposit", "ok", None)
    /\ Newest(db).amount = F(1)
    /\ "admin" \in DOMAIN db.users

====
